---- MODULE Spec2Model ----
(***************************************************************************)
(* Model of the shogi rules engine: ShogiBoard (shogi_game.py) and the     *)
(* move executor of the PyGame front end (pygame_shogi.py).                *)
(*                                                                         *)
(* Piece kinds are the source's piece_type strings, transliterated:        *)
(*   OU = '王' (Sente king)   GYOKU = '玉' (Gote king)   HI = '飛' (rook)  *)
(*   KAKU = '角' (bishop)     KIN = '金' (gold)          GIN = '銀'        *)
(*   KEI = '桂' (knight)      KYO = '香' (lance)         FU = '歩' (pawn)  *)
(* Move lists are modelled as sets of squares: every consumer in the       *)
(* source tests membership or iterates for existence.                      *)
(***************************************************************************)
EXTENDS Integers, Sequences, FiniteSets, TLC

\* ---------------------------------------------------------------- bounds
\* number of successful move executions explored from the initial position
MaxMoves == 5

\* (from, to) coordinates offered to the move executors: the moves of the
\* bishop lines on the diagonal (7,1)-(1,7) after the two pawn pushes that
\* open it, captures on (2,6), (1,7), (7,1) and (0,4), a king step, two pawn
\* pushes away from the diagonal, and three calls that can never be moves (a
\* pawn two squares ahead, a source and a destination off the board).
\* Whether a pair is a move of the player to move depends on the position it
\* is offered in.
InputMoves ==
    { << <<6, 2>>, <<5, 2>> >>, << <<2, 6>>, <<3, 6>> >>,
      << <<7, 1>>, <<2, 6>> >>, << <<7, 1>>, <<1, 7>> >>,
      << <<1, 7>>, <<7, 1>> >>, << <<1, 7>>, <<2, 6>> >>,
      << <<2, 6>>, <<0, 4>> >>, << <<0, 6>>, <<1, 7>> >>,
      << <<0, 4>>, <<1, 5>> >>, << <<1, 5>>, <<2, 6>> >>,
      << <<2, 2>>, <<3, 2>> >>, << <<3, 2>>, <<4, 2>> >>,
      << <<6, 2>>, <<4, 2>> >>,
      << <<9, 0>>, <<8, 0>> >>, << <<8, 0>>, <<9, 0>> >> }

\* ---------------------------------------------------------------- pieces
BoardSize == 9
Rows == 0 .. (BoardSize - 1)
Squares == Rows \X Rows

Sente == 1
Gote == 2
Players == {Sente, Gote}

\* ShogiPiece: piece_type, player, promoted; id stands for the identity of
\* the Python object (1..81 = initial square index + 1).
ShogiPiece(piece_type, player, promoted, id) ==
    [piece_type |-> piece_type, player |-> player,
     promoted |-> promoted, id |-> id]

\* the Python value None in a board cell
None == [piece_type |-> "None", player |-> 0, promoted |-> FALSE, id |-> 0]

king_types == {"OU", "GYOKU"}
promotable_pieces == {"FU", "KYO", "KEI", "GIN", "KAKU", "HI"}

\* index of a square in the row-major scan order of the nested range(9) loops
SquareIndex(sq) == sq[1] * BoardSize + sq[2]

\* the back rank with a silver typed where the second gold belongs
BackRankOneGold(player) ==
    << "KYO", "KEI", "GIN", "KIN",
       IF player = Sente THEN "OU" ELSE "GYOKU",
       "GIN", "GIN", "KEI", "KYO" >>

BackRank(player) ==
    << "KYO", "KEI", "GIN", "KIN",
       IF player = Sente THEN "OU" ELSE "GYOKU",
       "KIN", "GIN", "KEI", "KYO" >>

setup_initial_position ==
    [sq \in Squares |->
        LET row == sq[1]
            col == sq[2]
            id  == SquareIndex(sq) + 1
        IN  CASE row = 0 -> ShogiPiece(BackRank(Gote)[col + 1], Gote, FALSE, id)
              [] row = 1 /\ col = 1 -> ShogiPiece("HI", Gote, FALSE, id)
              [] row = 1 /\ col = 7 -> ShogiPiece("KAKU", Gote, FALSE, id)
              [] row = 2 -> ShogiPiece("FU", Gote, FALSE, id)
              [] row = 6 -> ShogiPiece("FU", Sente, FALSE, id)
              [] row = 7 /\ col = 1 -> ShogiPiece("KAKU", Sente, FALSE, id)
              [] row = 7 /\ col = 7 -> ShogiPiece("HI", Sente, FALSE, id)
              [] row = 8 -> ShogiPiece(BackRank(Sente)[col + 1], Sente, FALSE, id)
              [] OTHER -> None]

\* ---------------------------------------------------------- move generator
is_valid_position(row, col) ==
    0 <= row /\ row < BoardSize /\ 0 <= col /\ col < BoardSize

\* the turn switch with the test on the wrong value: "2 if player == 2 else 1"
OpponentStuck(player) == IF player = 2 THEN 2 ELSE 1

\* "2 if player == 1 else 1"
Opponent(player) == IF player = 1 THEN 2 ELSE 1

\* the landing test without the owner test: any square on the board
CanLandAnywhere(b, player, row, col) ==
    is_valid_position(row, col)

\* the landing test of a piece that cannot capture: empty squares only
CanLandOnEmpty(b, player, row, col) ==
    /\ is_valid_position(row, col)
    /\ b[<<row, col>>] = None

\* the test applied to every candidate square: on the board, and empty or
\* held by the other side
CanLand(b, player, row, col) ==
    /\ is_valid_position(row, col)
    /\ (b[<<row, col>>] = None \/ b[<<row, col>>].player # player)

\* one-step moves that may not jump: a step of two rows needs the square
\* one row along the way to be empty
StepMovesNoJump(b, row, col, player, directions) ==
    { <<row + d[1], col + d[2]>> : d \in
        { e \in directions :
            /\ CanLand(b, player, row + e[1], col + e[2])
            /\ (e[1] \in {-2, 2} =>
                   b[<<row + (e[1] \div 2), col>>] = None) } }

\* one-step moves along a set of (dr, dc) directions
StepMoves(b, row, col, player, directions) ==
    { <<row + d[1], col + d[2]>> : d \in
        { e \in directions : CanLand(b, player, row + e[1], col + e[2]) } }

\* "directions = [(dr * -1, dc) for dr, dc in directions]" for player 2
Orient(player, directions) ==
    IF player = 2 THEN { <<(-1) * d[1], d[2]>> : d \in directions }
    ELSE directions

\* the ray loop without the "break" after an enemy piece: the slide goes on
\* behind the captured square
RECURSIVE RayThrough(_, _, _, _, _, _, _)
RayThrough(b, row, col, dr, dc, player, i) ==
    IF i >= 9 THEN {}
    ELSE LET new_row == row + dr * i
             new_col == col + dc * i
         IN  IF ~is_valid_position(new_row, new_col) THEN {}
             ELSE IF b[<<new_row, new_col>>] # None
                       /\ b[<<new_row, new_col>>].player = player
                  THEN {}
                  ELSE { <<new_row, new_col>> }
                         \cup RayThrough(b, row, col, dr, dc, player, i + 1)

\* one ray of a sliding piece: the loop "for i in range(1, 9)" from step i on
RECURSIVE Ray(_, _, _, _, _, _, _)
Ray(b, row, col, dr, dc, player, i) ==
    IF i >= 9 THEN {}
    ELSE LET new_row == row + dr * i
             new_col == col + dc * i
         IN  IF ~is_valid_position(new_row, new_col) THEN {}
             ELSE IF b[<<new_row, new_col>>] # None
                  THEN IF b[<<new_row, new_col>>].player # player
                       THEN { <<new_row, new_col>> }
                       ELSE {}
                  ELSE { <<new_row, new_col>> }
                         \cup Ray(b, row, col, dr, dc, player, i + 1)

SlideMoves(b, row, col, player, directions) ==
    UNION { Ray(b, row, col, d[1], d[2], player, 1) : d \in directions }

\* the gold pattern with the two backward diagonals added
GoldDirectionsAllAround ==
    { <<-1, -1>>, <<-1, 0>>, <<-1, 1>>, <<0, -1>>, <<0, 1>>, <<1, 0>>,
      <<1, -1>>, <<1, 1>> }

GoldDirections == { <<-1, -1>>, <<-1, 0>>, <<-1, 1>>, <<0, -1>>, <<0, 1>>, <<1, 0>> }
SilverDirections == { <<-1, -1>>, <<-1, 0>>, <<-1, 1>>, <<1, -1>>, <<1, 1>> }
DiagonalDirections == { <<-1, -1>>, <<-1, 1>>, <<1, -1>>, <<1, 1>> }
OrthogonalDirections == { <<-1, 0>>, <<1, 0>>, <<0, -1>>, <<0, 1>> }
KingDirections == DiagonalDirections \cup OrthogonalDirections

get_gold_moves(b, row, col, player) ==
    StepMoves(b, row, col, player, Orient(player, GoldDirections))

\* the helper with the rook branch missing
get_piece_moves_for_type_bishop_only(b, piece_type, row, col, player, promoted) ==
    IF piece_type = "KAKU" /\ ~promoted
    THEN SlideMoves(b, row, col, player, DiagonalDirections)
    ELSE {}

get_piece_moves_for_type(b, piece_type, row, col, player, promoted) ==
    IF piece_type = "KAKU" /\ ~promoted
    THEN SlideMoves(b, row, col, player, DiagonalDirections)
    ELSE IF piece_type = "HI" /\ ~promoted
    THEN SlideMoves(b, row, col, player, OrthogonalDirections)
    ELSE {}

\* the movement rule of the piece on (row, col): the if/elif chain of
\* get_piece_moves after its guard
MovesByRule(b, row, col) ==
    LET piece      == b[<<row, col>>]
        piece_type == piece.piece_type
        player     == piece.player
        promoted   == piece.promoted
    IN  CASE piece_type = "FU" ->
               IF ~promoted
               THEN LET dr == IF player = 1 THEN -1 ELSE 1
                    IN  IF CanLand(b, player, row + dr, col)
                        THEN { <<row + dr, col>> } ELSE {}
               ELSE get_gold_moves(b, row, col, player)
          [] piece_type \in king_types ->
               StepMoves(b, row, col, player, KingDirections)
          [] piece_type = "KIN" ->
               get_gold_moves(b, row, col, player)
          [] piece_type = "GIN" ->
               IF ~promoted
               THEN StepMoves(b, row, col, player, Orient(player, SilverDirections))
               ELSE get_gold_moves(b, row, col, player)
          [] piece_type = "KEI" ->
               IF ~promoted
               THEN StepMoves(b, row, col, player,
                        IF player = 1 THEN { <<-2, -1>>, <<-2, 1>> }
                                      ELSE { <<2, -1>>, <<2, 1>> })
               ELSE get_gold_moves(b, row, col, player)
          [] piece_type = "KYO" ->
               IF ~promoted
               THEN Ray(b, row, col, IF player = 1 THEN -1 ELSE 1, 0, player, 1)
               ELSE get_gold_moves(b, row, col, player)
          [] piece_type = "KAKU" ->
               IF ~promoted
               THEN SlideMoves(b, row, col, player, DiagonalDirections)
               ELSE get_piece_moves_for_type(b, "KAKU", row, col, player, FALSE)
                      \cup StepMoves(b, row, col, player, OrthogonalDirections)
          [] piece_type = "HI" ->
               IF ~promoted
               THEN SlideMoves(b, row, col, player, OrthogonalDirections)
               ELSE get_piece_moves_for_type(b, "HI", row, col, player, FALSE)
                      \cup StepMoves(b, row, col, player, DiagonalDirections)
          [] OTHER -> {}

\* get_piece_moves without the test of the owner
get_piece_moves_any_owner(b, cp, row, col) ==
    LET piece == b[<<row, col>>]
    IN  IF piece = None THEN {}
        ELSE MovesByRule(b, row, col)

\* get_piece_moves reads self.board and self.current_player
get_piece_moves(b, cp, row, col) ==
    LET piece == b[<<row, col>>]
    IN  IF piece = None \/ piece.player # cp THEN {}
        ELSE MovesByRule(b, row, col)

\* ------------------------------------------------------------ check detector
\* first square in scan order holding a king of the player, or <<>> for None
find_king(b, player) ==
    LET kings == { sq \in Squares :
                     /\ b[sq] # None
                     /\ b[sq].player = player
                     /\ b[sq].piece_type \in king_types }
    IN  IF kings = {} THEN << >>
        ELSE CHOOSE sq \in kings :
                 \A other \in kings : SquareIndex(sq) <= SquareIndex(other)

\* is_in_check answering True when find_king returns None
is_in_check_missing_king(b, cp, player) ==
    LET king_pos == find_king(b, player)
        opponent == Opponent(player)
    IN  IF king_pos = << >> THEN TRUE
        ELSE \E sq \in Squares :
                 /\ b[sq] # None
                 /\ b[sq].player = opponent
                 /\ king_pos \in get_piece_moves(b, cp, sq[1], sq[2])

is_in_check(b, cp, player) ==
    LET king_pos == find_king(b, player)
        opponent == Opponent(player)
    IN  IF king_pos = << >> THEN FALSE
        ELSE \E sq \in Squares :
                 /\ b[sq] # None
                 /\ b[sq].player = opponent
                 /\ king_pos \in get_piece_moves(b, cp, sq[1], sq[2])

\* the relocation without "board[from] = None": the source keeps the piece
MakeMoveKeepSource(b, from, to, piece) ==
    [b EXCEPT ![to] = piece]

\* "board[to] = piece; board[from] = None"
MakeMove(b, from, to, piece) ==
    [b EXCEPT ![to] = piece, ![from] = None]

\* the restore that forgets the piece that stood on the destination
UndoMoveLosesCaptured(b, from, to, piece, captured_piece) ==
    [b EXCEPT ![from] = piece, ![to] = None]

\* "board[from] = piece; board[to] = captured_piece"
UndoMove(b, from, to, piece, captured_piece) ==
    [b EXCEPT ![from] = piece, ![to] = captured_piece]

\* the (from, to) candidates of can_escape_check in the order the nested
\* loops visit them: from squares in scan order, destinations in scan order
EscapeCandidates(b, cp, player) ==
    { <<from, to>> \in Squares \X Squares :
          /\ b[from] # None
          /\ b[from].player = player
          /\ to \in get_piece_moves(b, cp, from[1], from[2]) }

\* the simulate / test / restore loop of can_escape_check over the
\* candidates that are still to be tried; returns the result and the board
\* the loop leaves behind
RECURSIVE EscapeLoop(_, _, _, _)
EscapeLoop(b, cp, player, todo) ==
    IF todo = {} THEN [result |-> FALSE, board |-> b]
    ELSE LET cand == CHOOSE c \in todo :
                        \A d \in todo :
                            \/ SquareIndex(c[1]) < SquareIndex(d[1])
                            \/ /\ c[1] = d[1]
                               /\ SquareIndex(c[2]) <= SquareIndex(d[2])
             from == cand[1]
             to == cand[2]
             piece == b[from]
             original_piece == b[to]
             sim == MakeMove(b, from, to, piece)
             check_escaped == ~is_in_check(sim, cp, player)
             restored == UndoMove(sim, from, to, piece, original_piece)
         IN  IF check_escaped THEN [result |-> TRUE, board |-> restored]
             ELSE EscapeLoop(restored, cp, player, todo \ {cand})

can_escape_check(b, cp, player) ==
    IF ~is_in_check(b, cp, player) THEN [result |-> TRUE, board |-> b]
    ELSE EscapeLoop(b, cp, player, EscapeCandidates(b, cp, player))

\* is_checkmate answering for whichever player is in check without escape
is_checkmate_any_player(b, cp, player) ==
    IF \E p \in Players :
           is_in_check(b, cp, p) /\ ~can_escape_check(b, cp, p).result
    THEN [result |-> TRUE, board |-> b]
    ELSE [result |-> FALSE, board |-> b]

\* "is_in_check(player) and not can_escape_check(player)"
is_checkmate(b, cp, player) ==
    IF ~is_in_check(b, cp, player) THEN [result |-> FALSE, board |-> b]
    ELSE LET esc == can_escape_check(b, cp, player)
         IN  [result |-> ~esc.result, board |-> esc.board]

\* the winner decided with the tests in the other order: Gote's checkmate
\* first
GameStatusGoteFirst(player1_in_check, player2_in_check, player1_checkmate, player2_checkmate) ==
    [game_over |-> player1_checkmate \/ player2_checkmate,
     winner |-> IF player2_checkmate THEN 1
                ELSE IF player1_checkmate THEN 2
                ELSE 0,
     player1_in_check |-> player1_in_check,
     player2_in_check |-> player2_in_check,
     player1_checkmate |-> player1_checkmate,
     player2_checkmate |-> player2_checkmate]

\* the dictionary get_game_status builds from its four results; winner 0 is
\* the Python value None
GameStatus(player1_in_check, player2_in_check, player1_checkmate, player2_checkmate) ==
    [game_over |-> player1_checkmate \/ player2_checkmate,
     winner |-> IF player1_checkmate THEN 2
                ELSE IF player2_checkmate THEN 1
                ELSE 0,
     player1_in_check |-> player1_in_check,
     player2_in_check |-> player2_in_check,
     player1_checkmate |-> player1_checkmate,
     player2_checkmate |-> player2_checkmate]

\* ShogiBoard.get_game_status: the four calls in their order, each on the
\* board the previous one left
get_game_status(b, cp) ==
    LET player1_in_check == is_in_check(b, cp, 1)
        player2_in_check == is_in_check(b, cp, 2)
        cm1 == is_checkmate(b, cp, 1)
        cm2 == is_checkmate(cm1.board, cp, 2)
    IN  [status |-> GameStatus(player1_in_check, player2_in_check,
                               cm1.result, cm2.result),
         board |-> cm2.board]

\* ------------------------------------------------------------ promotion rule
\* the promotion zones one rank too shallow: "row < 2" and "row > 6"
can_promote_row_shallow(piece, row) ==
    IF piece.promoted THEN FALSE
    ELSE IF piece.piece_type \notin promotable_pieces THEN FALSE
    ELSE IF piece.player = 1 /\ row < 2 THEN TRUE
    ELSE IF piece.player = 2 /\ row > 6 THEN TRUE
    ELSE FALSE

\* ShogiBoard._can_promote(piece, row)
can_promote_row(piece, row) ==
    IF piece.promoted THEN FALSE
    ELSE IF piece.piece_type \notin promotable_pieces THEN FALSE
    ELSE IF piece.player = 1 /\ row <= 2 THEN TRUE
    ELSE IF piece.player = 2 /\ row >= 6 THEN TRUE
    ELSE FALSE

\* PyGameShogi.can_promote(piece, from_row, to_row)
can_promote(piece, from_row, to_row) == can_promote_row(piece, to_row)

\* ------------------------------------------------------------- move executor
\* the capture without "captured_piece.promoted = False"
CaptureKeepPromoted(hands, cp, captured_piece) ==
    [hands EXCEPT ![cp] = Append(@, captured_piece)]

\* the capture that does not keep the piece
CaptureDiscard(hands, cp, captured_piece) == hands

\* the capture that puts the piece at the front of the hand
CaptureAtFront(hands, cp, captured_piece) ==
    [hands EXCEPT ![cp] = <<[captured_piece EXCEPT !.promoted = FALSE]>> \o @]

\* the capture that hands the piece over to the capturing player
CaptureChangeOwner(hands, cp, captured_piece) ==
    [hands EXCEPT ![cp] = Append(@, [captured_piece EXCEPT !.promoted = FALSE,
                                                           !.player = cp])]

\* "captured_piece.promoted = False; captured_pieces[current_player].append"
Capture(hands, cp, captured_piece) ==
    [hands EXCEPT ![cp] = Append(@, [captured_piece EXCEPT !.promoted = FALSE])]

\* "piece.promoted = True" for the piece that now stands on square to
SetPromoted(b, to) == [b EXCEPT ![to].promoted = TRUE]

\* what an executor hands back: its return value and the state it leaves
Outcome(result, b, hands, cp) ==
    [result |-> result, board |-> b, captured_pieces |-> hands,
     current_player |-> cp]

\* move_piece with the relocation of lines 310-312 done before the membership
\* test of lines 306-307, whose "return False" then leaves it in place
move_piece_simulate_first(b, hands, cp, from_row, from_col, to_row, to_col, answer) ==
    IF ~is_valid_position(from_row, from_col) \/ ~is_valid_position(to_row, to_col)
    THEN Outcome(FALSE, b, hands, cp)
    ELSE
    LET from == <<from_row, from_col>>
        to == <<to_row, to_col>>
        piece == b[from]
    IN  IF piece = None \/ piece.player # cp
        THEN Outcome(FALSE, b, hands, cp)
        ELSE
        LET captured_piece == b[to]
            sim == MakeMove(b, from, to, piece)
        IN  IF to \notin get_piece_moves(b, cp, from_row, from_col)
            THEN Outcome(FALSE, sim, hands, cp)
            ELSE IF is_in_check(sim, cp, cp)
            THEN Outcome(FALSE, UndoMove(sim, from, to, piece, captured_piece),
                         hands, cp)
            ELSE
            LET restored == UndoMove(sim, from, to, piece, captured_piece)
                hands2 == IF captured_piece # None
                          THEN Capture(hands, cp, captured_piece)
                          ELSE hands
                moved == MakeMove(restored, from, to, piece)
                final == IF can_promote_row(piece, to_row) /\ answer
                         THEN SetPromoted(moved, to)
                         ELSE moved
            IN  Outcome(TRUE, final, hands2, Opponent(cp))

\* move_piece promoting without a prompt whenever the promotion test holds
move_piece_forced_promotion(b, hands, cp, from_row, from_col, to_row, to_col, answer) ==
    IF ~is_valid_position(from_row, from_col) \/ ~is_valid_position(to_row, to_col)
    THEN Outcome(FALSE, b, hands, cp)
    ELSE
    LET from == <<from_row, from_col>>
        to == <<to_row, to_col>>
        piece == b[from]
    IN  IF piece = None \/ piece.player # cp
        THEN Outcome(FALSE, b, hands, cp)
        ELSE IF to \notin get_piece_moves(b, cp, from_row, from_col)
        THEN Outcome(FALSE, b, hands, cp)
        ELSE
        LET captured_piece == b[to]
            sim == MakeMove(b, from, to, piece)
        IN  IF is_in_check(sim, cp, cp)
            THEN Outcome(FALSE, UndoMove(sim, from, to, piece, captured_piece),
                         hands, cp)
            ELSE
            LET restored == UndoMove(sim, from, to, piece, captured_piece)
                hands2 == IF captured_piece # None
                          THEN Capture(hands, cp, captured_piece)
                          ELSE hands
                moved == MakeMove(restored, from, to, piece)
                final == IF can_promote_row(piece, to_row)
                         THEN SetPromoted(moved, to)
                         ELSE moved
            IN  Outcome(TRUE, final, hands2, Opponent(cp))

\* ShogiBoard.move_piece; answer is the reply to the prompt "y/n" (read only
\* when the promotion test holds)
move_piece(b, hands, cp, from_row, from_col, to_row, to_col, answer) ==
    IF ~is_valid_position(from_row, from_col) \/ ~is_valid_position(to_row, to_col)
    THEN Outcome(FALSE, b, hands, cp)
    ELSE
    LET from == <<from_row, from_col>>
        to == <<to_row, to_col>>
        piece == b[from]
    IN  IF piece = None \/ piece.player # cp
        THEN Outcome(FALSE, b, hands, cp)
        ELSE IF to \notin get_piece_moves(b, cp, from_row, from_col)
        THEN Outcome(FALSE, b, hands, cp)
        ELSE
        LET captured_piece == b[to]
            sim == MakeMove(b, from, to, piece)
        IN  IF is_in_check(sim, cp, cp)
            THEN Outcome(FALSE, UndoMove(sim, from, to, piece, captured_piece),
                         hands, cp)
            ELSE
            LET restored == UndoMove(sim, from, to, piece, captured_piece)
                hands2 == IF captured_piece # None
                          THEN Capture(hands, cp, captured_piece)
                          ELSE hands
                moved == MakeMove(restored, from, to, piece)
                final == IF can_promote_row(piece, to_row) /\ answer
                         THEN SetPromoted(moved, to)
                         ELSE moved
            IN  Outcome(TRUE, final, hands2, Opponent(cp))

\* PyGameShogi.is_valid_move
is_valid_move(b, cp, from_row, from_col, to_row, to_col) ==
    IF ~is_valid_position(from_row, from_col) \/ ~is_valid_position(to_row, to_col)
    THEN FALSE
    ELSE LET piece == b[<<from_row, from_col>>]
         IN  IF piece = None \/ piece.player # cp THEN FALSE
             ELSE <<to_row, to_col>> \in get_piece_moves(b, cp, from_row, from_col)

\* PyGameShogi.move_piece_with_promotion
move_piece_with_promotion(b, hands, cp, from_row, from_col, to_row, to_col, promote) ==
    IF ~is_valid_move(b, cp, from_row, from_col, to_row, to_col)
    THEN Outcome(FALSE, b, hands, cp)
    ELSE
    LET from == <<from_row, from_col>>
        to == <<to_row, to_col>>
        piece == b[from]
        captured_piece == b[to]
        sim == MakeMove(b, from, to, piece)
    IN  IF is_in_check(sim, cp, cp)
        THEN Outcome(FALSE, UndoMove(sim, from, to, piece, captured_piece),
                     hands, cp)
        ELSE
        LET restored == UndoMove(sim, from, to, piece, captured_piece)
            hands2 == IF captured_piece # None
                      THEN Capture(hands, cp, captured_piece)
                      ELSE hands
            moved == MakeMove(restored, from, to, piece)
            final == IF promote THEN SetPromoted(moved, to) ELSE moved
        IN  Outcome(TRUE, final, hands2, Opponent(cp))

NoSquare == <<-1, -1>>

\* ------------------------------------------------------------ move notation
\* A Python str is a sequence of one-character strings.
DigitValue ==
    ("0" :> 0) @@ ("1" :> 1) @@ ("2" :> 2) @@ ("3" :> 3) @@ ("4" :> 4) @@
    ("5" :> 5) @@ ("6" :> 6) @@ ("7" :> 7) @@ ("8" :> 8) @@ ("9" :> 9)

\* int(ch) succeeds
IsDigit(ch) == ch \in DOMAIN DigitValue

\* move_str.split('-'): the pieces between the separators, scanned from
\* position i with cur the piece being collected
RECURSIVE SplitFrom(_, _, _, _)
SplitFrom(str, i, cur, parts) ==
    IF i > Len(str) THEN Append(parts, cur)
    ELSE IF str[i] = "-"
         THEN SplitFrom(str, i + 1, << >>, Append(parts, cur))
         ELSE SplitFrom(str, i + 1, Append(cur, str[i]), parts)

Split(str) == SplitFrom(str, 1, << >>, << >>)

\* the file digit read as a row index as it comes: "int(from_pos[0]) - 1"
FileToColUnmirrored(file_digit) == file_digit - 1

\* "9 - int(from_pos[0])"
FileToCol(file_digit) == 9 - file_digit

\* "int(from_pos[1]) - 1"
RankToRow(rank_digit) == rank_digit - 1

\* ShogiGame.parse_move: ok is FALSE when ValueError is raised (wrong number
\* of parts, a part shorter than two characters, int() of a non-digit)
parse_move(move_str) ==
    LET parts == Split(move_str)
        failed == [ok |-> FALSE, from |-> NoSquare, to |-> NoSquare]
    IN  IF Len(parts) # 2 THEN failed
        ELSE LET from_pos == parts[1]
                 to_pos == parts[2]
             IN  IF Len(from_pos) < 2 \/ Len(to_pos) < 2 THEN failed
                 ELSE IF ~(/\ IsDigit(from_pos[1]) /\ IsDigit(from_pos[2])
                           /\ IsDigit(to_pos[1]) /\ IsDigit(to_pos[2]))
                 THEN failed
                 ELSE [ok |-> TRUE,
                       from |-> <<RankToRow(DigitValue[from_pos[2]]),
                                  FileToCol(DigitValue[from_pos[1]])>>,
                       to |-> <<RankToRow(DigitValue[to_pos[2]]),
                                FileToCol(DigitValue[to_pos[1]])>>]

\* --------------------------------------------------------------------- state
VARIABLES
    board,            \* ShogiBoard.board
    captured_pieces,  \* ShogiBoard.captured_pieces: player -> list of pieces
    current_player,   \* ShogiBoard.current_player
    last,             \* the last call: operation, its player argument (the
                      \* mover for an executor), its return value and, for a
                      \* successful move, its arguments and the piece that
                      \* stood on the destination before the call; for the
                      \* parser and the console loop the text that was read
    nmoves,           \* number of successful move executions so far
    gui               \* the PyGameShogi object (selected_pos, possible_moves,
                      \* promotion_dialog) and the locals of its run loop
                      \* (running, game_status) with the position in the loop

vars == <<board, captured_pieces, current_player, last, nmoves, gui>>

Call(op, player, result) ==
    [op |-> op, player |-> player, result |-> result,
     from |-> NoSquare, to |-> NoSquare, promote |-> FALSE, captured |-> None,
     input |-> << >>]

Moved(op, player, from, to, promote, captured) ==
    [op |-> op, player |-> player, result |-> TRUE,
     from |-> from, to |-> to, promote |-> promote, captured |-> captured,
     input |-> << >>]

MoveOps == {"move_piece", "move_piece_with_promotion"}

\* ShogiBoard.__init__
\* promotion_dialog = None
NoDialog == [from |-> NoSquare, to |-> NoSquare, piece |-> None]

\* PyGameShogi.__init__ followed by the entry of run: nothing selected, no
\* dialog, running = True, the loop at the top of its first iteration where
\* game_status is not assigned yet
PyGameShogi ==
    [selected_pos |-> NoSquare,
     possible_moves |-> {},
     promotion_dialog |-> NoDialog,
     running |-> TRUE,
     game_over |-> FALSE,
     at |-> "top"]

Init ==
    /\ board = setup_initial_position
    /\ captured_pieces = [p \in Players |-> << >>]
    /\ current_player = 1
    /\ last = Call("init", 0, TRUE)
    /\ nmoves = 0
    /\ gui = PyGameShogi

Execute(op, out, from, to, promote) ==
    /\ board' = out.board
    /\ captured_pieces' = out.captured_pieces
    /\ current_player' = out.current_player
    /\ IF out.result
       THEN /\ last' = Moved(op, current_player, from, to, promote, board[to])
            /\ nmoves' = nmoves + 1
       ELSE /\ last' = Call(op, current_player, FALSE)
            /\ nmoves' = nmoves
    /\ UNCHANGED gui

MovePiece(from, to, answer) ==
    /\ nmoves < MaxMoves
    /\ Execute("move_piece",
               move_piece(board, captured_pieces, current_player,
                          from[1], from[2], to[1], to[2], answer),
               from, to,
               /\ answer
               /\ is_valid_position(from[1], from[2])
               /\ can_promote_row(board[from], to[1]))

MovePieceWithPromotion(from, to, promote) ==
    /\ nmoves < MaxMoves
    /\ Execute("move_piece_with_promotion",
               move_piece_with_promotion(board, captured_pieces, current_player,
                                         from[1], from[2], to[1], to[2], promote),
               from, to, promote)

IsInCheck(player) ==
    /\ last' = Call("is_in_check", player,
                    is_in_check(board, current_player, player))
    /\ UNCHANGED <<board, captured_pieces, current_player, nmoves, gui>>

CanEscapeCheck(player) ==
    LET out == can_escape_check(board, current_player, player)
    IN  /\ board' = out.board
        /\ last' = Call("can_escape_check", player, out.result)
        /\ UNCHANGED <<captured_pieces, current_player, nmoves, gui>>

IsCheckmate(player) ==
    LET out == is_checkmate(board, current_player, player)
    IN  /\ board' = out.board
        /\ last' = Call("is_checkmate", player, out.result)
        /\ UNCHANGED <<captured_pieces, current_player, nmoves, gui>>

\* the call returns the status dictionary; last.result holds its game_over
GetGameStatus ==
    LET out == get_game_status(board, current_player)
    IN  /\ board' = out.board
        /\ last' = Call("get_game_status", 0, out.status.game_over)
        /\ UNCHANGED <<captured_pieces, current_player, nmoves, gui>>

Next ==
    \/ \E m \in InputMoves, answer \in BOOLEAN :
           MovePiece(m[1], m[2], answer)
    \/ \E m \in InputMoves, promote \in BOOLEAN :
           MovePieceWithPromotion(m[1], m[2], promote)
    \/ \E player \in Players : IsInCheck(player)
    \/ \E player \in Players : CanEscapeCheck(player)
    \/ \E player \in Players : IsCheckmate(player)
    \/ GetGameStatus

Spec == Init /\ [][Next]_vars

\* ------------------------------------------------- console loop and parser
\* digits of the well-formed strings handed to the parser
ParseDigits == { "1", "6", "7", "9" }

WellFormedInputs ==
    { <<f1, r1, "-", f2, r2>> :
        f1 \in ParseDigits, r1 \in ParseDigits,
        f2 \in ParseDigits, r2 \in ParseDigits }

\* strings that are not of the form digit digit - digit digit with digits
\* 1..9: digit 0, letters, no or two separators, short and long parts
OtherInputs ==
    { <<"0", "7", "-", "7", "6">>, <<"7", "0", "-", "7", "6">>,
      <<"7", "7", "-", "0", "6">>, <<"7", "7", "-", "7", "0">>,
      <<"7", "7", "7", "6">>, <<"7", "7", "-", "7", "6", "-", "7", "5">>,
      <<"7", "x", "-", "7", "6">>, <<"x", "7", "-", "7", "6">>,
      <<"7", "7", "x", "-", "7", "6">>, <<"7", "7", "-", "7", "6", "x">>,
      <<"7", "-", "7", "6">>, <<"7", "7", "-">>, <<"-">>, << >>,
      <<"7", "7", "7", "-", "7", "6">> }

\* lines typed at the prompt of ShogiGame.play
InputLines ==
    { <<"7", "7", "-", "7", "6">>, <<"3", "3", "-", "3", "4">>,
      <<"0", "7", "-", "7", "6">>, <<"7", "x", "-", "7", "6">>,
      <<"7", "7", "7", "6">>, <<"7", "7", "-", "7", "5">>,
      <<"7", "7", "x", "-", "7", "6">> }

\* a call of ShogiGame.parse_move
ParseMove(move_str) ==
    LET out == parse_move(move_str)
    IN  /\ last' = [Call("parse_move", 0, out.ok) EXCEPT
                        !.from = out.from, !.to = out.to, !.input = move_str]
        /\ UNCHANGED <<board, captured_pieces, current_player, nmoves, gui>>

\* one iteration of the loop of ShogiGame.play that reads a move: the loop
\* has not ended at the game_over test, the line is parsed, and on success
\* handed to move_piece; a ValueError is caught and reported
PlayTurn(move_input, answer) ==
    /\ nmoves < MaxMoves
    /\ LET st == get_game_status(board, current_player)
           out == parse_move(move_input)
       IN  /\ ~st.status.game_over
           /\ IF ~out.ok
              THEN /\ board' = st.board
                   /\ last' = [Call("play", current_player, FALSE) EXCEPT
                                   !.input = move_input]
                   /\ UNCHANGED <<captured_pieces, current_player, nmoves, gui>>
              ELSE LET mv == move_piece(st.board, captured_pieces, current_player,
                                        out.from[1], out.from[2],
                                        out.to[1], out.to[2], answer)
                   IN  /\ board' = mv.board
                       /\ captured_pieces' = mv.captured_pieces
                       /\ current_player' = mv.current_player
                       /\ nmoves' = IF mv.result THEN nmoves + 1 ELSE nmoves
                       /\ last' = [Call("play", current_player, mv.result) EXCEPT
                                       !.from = out.from, !.to = out.to,
                                       !.input = move_input]
                       /\ UNCHANGED gui

NextConsole ==
    \/ \E move_str \in WellFormedInputs \cup OtherInputs : ParseMove(move_str)
    \/ \E move_input \in InputLines, answer \in BOOLEAN : PlayTurn(move_input, answer)

SpecConsole == Init /\ [][NextConsole]_vars

\* ------------------------------------------------------- reference notions
\* squares holding a king of the player
KingSquares(b, player) ==
    { sq \in Squares : b[sq].player = player /\ b[sq].piece_type \in king_types }

\* the player's king stands on a square that the movement rule of some
\* opposing piece reaches, whoever is to move
Attacked(b, player) ==
    \E ksq \in KingSquares(b, player) :
        \E sq \in Squares :
            /\ b[sq].player = Opponent(player)
            /\ ksq \in MovesByRule(b, sq[1], sq[2])

\* some piece of the player has a destination of its movement rule after
\* which the player's king is not attacked
EscapeExists(b, player) ==
    \E from \in Squares :
        /\ b[from].player = player
        /\ \E to \in MovesByRule(b, from[1], from[2]) :
               ~Attacked(MakeMove(b, from, to, b[from]), player)

\* every piece of the game: on the board or in a hand
PiecesInPlay ==
    { board[sq] : sq \in { s \in Squares : board[s] # None } }
      \cup UNION { { captured_pieces[p][i] : i \in 1 .. Len(captured_pieces[p]) } :
                   p \in Players }

PromotionZone(player, row) ==
    IF player = Sente THEN row \in 0 .. 2 ELSE row \in 6 .. 8

SamePiece(p, q) ==
    p.id = q.id /\ p.piece_type = q.piece_type /\ p.player = q.player

MoveSucceeded == last.op \in MoveOps /\ last.result

\* ------------------------------------------------------------------- claims

\* C1: in every state reached by move executions the board holds exactly one
\* king of each player (no accepted move captures a king).
C1_OneKingEach ==
    \A p \in Players : Cardinality(KingSquares(board, p)) = 1

\* C2: after an accepted move the mover's king is not on a square that the
\* movement rule of an opposing piece reaches.
C2_NoSelfCheckAccepted ==
    MoveSucceeded => ~Attacked(board, last.player)

\* C3: is_in_check(player) returns true exactly when the player's king is on
\* the board and attacked by the movement rule of an opposing piece,
\* whichever player is to move.
C3_InCheckIffAttacked ==
    last.op = "is_in_check" => (last.result <=> Attacked(board, last.player))

\* C4: is_checkmate(player) is true exactly when the player is in check and
\* no move of one of its pieces ends the check; can_escape_check(player) is
\* true when the player is not in check or such a move exists.
C4_CheckmateIffNoEscape ==
    /\ last.op = "is_checkmate" =>
           (last.result <=> (Attacked(board, last.player)
                               /\ ~EscapeExists(board, last.player)))
    /\ last.op = "can_escape_check" =>
           ((~Attacked(board, last.player) \/ EscapeExists(board, last.player))
               => last.result)

\* C5: a move execution that returns False leaves the board, both hands,
\* every promoted flag and current_player as they were.
C5_RejectedMutatesNothing ==
    [][(last'.op \in MoveOps /\ ~last'.result)
         => UNCHANGED <<board, captured_pieces, current_player>>]_vars

C5_Witness ==
    /\ last.op \in MoveOps
    /\ ~last.result
    /\ nmoves > 0

\* C6: a successful move empties the source, puts the moved piece on the
\* destination, appends the piece that stood there (if any) to the end of
\* the mover's hand, flips current_player and leaves every other cell and
\* the other hand unchanged.
C6_SuccessfulMoveEffect ==
    [][(last'.op \in MoveOps /\ last'.result) =>
         LET from == last'.from
             to == last'.to
             mover == current_player
             hand == captured_pieces[mover]
         IN  /\ board'[from] = None
             /\ SamePiece(board'[to], board[from])
             /\ IF board[to] = None
                THEN captured_pieces'[mover] = hand
                ELSE /\ Len(captured_pieces'[mover]) = Len(hand) + 1
                     /\ SubSeq(captured_pieces'[mover], 1, Len(hand)) = hand
                     /\ SamePiece(captured_pieces'[mover][Len(hand) + 1], board[to])
             /\ current_player' = Opponent(mover)
             /\ \A sq \in Squares \ {from, to} : board'[sq] = board[sq]
             /\ captured_pieces'[Opponent(mover)] = captured_pieces[Opponent(mover)]
      ]_vars

\* the example of the claim: from the initial position (6,2)->(5,2)
C6_Witness ==
    /\ MoveSucceeded
    /\ nmoves = 1
    /\ last.from = <<6, 2>> /\ last.to = <<5, 2>>
    /\ board[<<6, 2>>] = None
    /\ board[<<5, 2>>].piece_type = "FU"
    /\ current_player = Gote

\* C7: a move execution sets the promoted flag of the moved piece only when
\* the promote decision is true and can_promote holds for the piece at the
\* destination row; otherwise the flag is left as it was.
C7_PromotionOnlyWhenAllowed ==
    [][(/\ last'.op \in MoveOps
        /\ last'.result
        /\ ~(last'.promote /\ can_promote_row(board[last'.from], last'.to[1])))
         => board'[last'.to].promoted = board[last'.from].promoted]_vars

\* C8: every piece in a hand has promoted = false.
C8_HandsUnpromoted ==
    \A p \in Players :
        \A i \in 1 .. Len(captured_pieces[p]) : ~captured_pieces[p][i].promoted

\* a promoted piece has just been captured and lies demoted at the end of the
\* mover's hand
C8_Witness ==
    /\ MoveSucceeded
    /\ last.captured # None
    /\ last.captured.promoted
    /\ LET hand == captured_pieces[last.player]
       IN  /\ hand # << >>
           /\ hand[Len(hand)].id = last.captured.id
           /\ ~hand[Len(hand)].promoted

\* C9: a piece is promoted only if its kind is rook, bishop, silver, knight,
\* lance or pawn; a king or a gold is never promoted.
C9_PromotedOnlyPromotable ==
    \A piece \in PiecesInPlay :
        piece.promoted => piece.piece_type \in promotable_pieces

\* C10: can_promote is false for a promoted piece, a king or a gold, and is
\* otherwise true exactly for destination rows 0..2 (Sente) or 6..8 (Gote),
\* whatever the source row.
C10_CanPromoteRule ==
    \A piece \in PiecesInPlay : \A row \in Rows :
        /\ can_promote_row(piece, row) =
             IF piece.promoted \/ piece.piece_type \in king_types \cup {"KIN"}
             THEN FALSE
             ELSE PromotionZone(piece.player, row)
        /\ \A from_row \in Rows :
               can_promote(piece, from_row, row) = can_promote_row(piece, row)

\* the console executor asked, was answered yes and promoted the piece
C10_Witness ==
    /\ last.op = "move_piece"
    /\ last.result
    /\ last.promote
    /\ board[last.to].promoted
    /\ PromotionZone(last.player, last.to[1])

\* C11: only the player to move moves (an accepted move has its source piece
\* owned by current_player); current_player changes only by an accepted move
\* and flips on each one, so Sente is to move exactly after an even number
\* of accepted moves, starting with Sente.
C11_TurnOrder ==
    [][/\ current_player' # current_player => (last'.op \in MoveOps /\ last'.result)
       /\ (last'.op \in MoveOps /\ last'.result) =>
              /\ board[last'.from].player = current_player
              /\ current_player' = Opponent(current_player)
              /\ nmoves' = nmoves + 1
       /\ (last'.op \in MoveOps /\ ~last'.result) => current_player' = current_player
       /\ current_player = Sente <=> nmoves % 2 = 0
       /\ current_player' = Sente <=> nmoves' % 2 = 0
      ]_vars

\* two accepted moves have been made and Sente is to move again
C11_Witness ==
    /\ MoveSucceeded
    /\ nmoves = 2
    /\ last.player = Gote
    /\ current_player = Sente

\* C12: get_game_status reports game_over exactly when is_checkmate holds
\* for at least one player; winner is none exactly when game_over is false,
\* otherwise the player who is not checkmated, Gote if both are; the
\* in-check fields are the results of is_in_check.
C12_GameStatus ==
    /\ LET st == get_game_status(board, current_player).status
           cm1 == is_checkmate(board, current_player, 1).result
           cm2 == is_checkmate(board, current_player, 2).result
       IN  /\ st.game_over <=> (cm1 \/ cm2)
           /\ st.winner = 0 <=> ~st.game_over
           /\ (cm1 /\ ~cm2) => st.winner = Gote
           /\ (cm2 /\ ~cm1) => st.winner = Sente
           /\ (cm1 /\ cm2) => st.winner = Gote
           /\ st.player1_in_check = is_in_check(board, current_player, 1)
           /\ st.player2_in_check = is_in_check(board, current_player, 2)
           /\ last.op = "get_game_status" => last.result = st.game_over
    /\ \A ic1 \in BOOLEAN, ic2 \in BOOLEAN, cm1 \in BOOLEAN, cm2 \in BOOLEAN :
           LET st == GameStatus(ic1, ic2, cm1, cm2)
           IN  /\ st.game_over <=> (cm1 \/ cm2)
               /\ st.winner = 0 <=> ~st.game_over
               /\ st.game_over =>
                      st.winner = IF cm1 THEN Gote ELSE Sente
               /\ st.player1_in_check = ic1
               /\ st.player2_in_check = ic2

\* a status query has just reported game over with Sente as the winner
C12_Witness ==
    /\ last.op = "get_game_status"
    /\ last.result
    /\ get_game_status(board, current_player).status.winner = Sente

\* C19: the initial state has one king, one rook, one bishop, nine pawns and
\* two each of gold, silver, knight and lance per player (20 per side, 40
\* in all), all unpromoted, Gote's in rows 0..2 and Sente's in rows 6..8,
\* both hands empty and Sente to move.
C19_InitialPosition ==
    last.op = "init" =>
        LET Of(player, kinds) ==
                Cardinality({ sq \in Squares : /\ board[sq].player = player
                                                /\ board[sq].piece_type \in kinds })
            AllKinds == { "OU", "GYOKU", "HI", "KAKU", "KIN", "GIN", "KEI", "KYO", "FU" }
        IN  /\ Of(Sente, {"OU"}) = 1 /\ Of(Gote, {"GYOKU"}) = 1
            /\ Of(Sente, {"GYOKU"}) = 0 /\ Of(Gote, {"OU"}) = 0
            /\ \A p \in Players :
                   /\ Of(p, {"HI"}) = 1 /\ Of(p, {"KAKU"}) = 1
                   /\ Of(p, {"FU"}) = 9
                   /\ Of(p, {"KIN"}) = 2 /\ Of(p, {"GIN"}) = 2
                   /\ Of(p, {"KEI"}) = 2 /\ Of(p, {"KYO"}) = 2
                   /\ Of(p, AllKinds) = 20
            /\ Cardinality({ sq \in Squares : board[sq] # None }) = 40
            /\ \A sq \in Squares :
                   /\ ~board[sq].promoted
                   /\ board[sq].player = Gote => sq[1] \in 0 .. 2
                   /\ board[sq].player = Sente => sq[1] \in 6 .. 8
            /\ \A p \in Players : captured_pieces[p] = << >>
            /\ current_player = Sente

\* the state right after construction
C19_Witness ==
    /\ last.op = "init"
    /\ nmoves = 0
    /\ board[<<8, 4>>].piece_type = "OU"

PieceKinds == { "OU", "GYOKU", "HI", "KAKU", "KIN", "GIN", "KEI", "KYO", "FU" }

\* the board with the piece on sq turned into the given kind and promotion
\* state (owner and square kept)
AsKind(b, sq, kind, promoted) ==
    [b EXCEPT ![sq].piece_type = kind, ![sq].promoted = promoted]

\* squares holding a piece of the player to move
MoverSquares ==
    { sq \in Squares : board[sq] # None /\ board[sq].player = current_player }

ForwardOf(player) == IF player = Sente THEN -1 ELSE 1

\* squares of the ray from sq in direction d up to and including the first
\* occupied square, that one only if it holds an enemy of owner
RayRule(b, sq, d, owner) ==
    { <<sq[1] + i * d[1], sq[2] + i * d[2]>> : i \in
        { k \in 1 .. 8 :
            /\ <<sq[1] + k * d[1], sq[2] + k * d[2]>> \in Squares
            /\ \A j \in 1 .. (k - 1) :
                   b[<<sq[1] + j * d[1], sq[2] + j * d[2]>>] = None
            /\ b[<<sq[1] + k * d[1], sq[2] + k * d[2]>>].player # owner } }

\* all board squares on the ray from sq in direction d
RayLine(sq, d) ==
    { <<sq[1] + i * d[1], sq[2] + i * d[2]>> : i \in 1 .. 8 } \cap Squares

SlideDirections(kind, owner) ==
    CASE kind = "KYO" -> { <<ForwardOf(owner), 0>> }
      [] kind = "KAKU" -> { <<-1, -1>>, <<-1, 1>>, <<1, -1>>, <<1, 1>> }
      [] kind = "HI" -> { <<-1, 0>>, <<1, 0>>, <<0, -1>>, <<0, 1>> }

\* C14: for every piece kind, promoted or not, every destination returned by
\* get_piece_moves is on the board and empty or held by the opponent; it is
\* never a square of the mover's own side nor the piece's own square.
C14_DestinationsLegal ==
    \A sq \in MoverSquares : \A kind \in PieceKinds : \A promoted \in BOOLEAN :
        LET b == AsKind(board, sq, kind, promoted)
            owner == board[sq].player
        IN  \A to \in get_piece_moves(b, current_player, sq[1], sq[2]) :
                /\ to \in Squares
                /\ to # sq
                /\ b[to] = None \/ b[to].player = Opponent(owner)
                /\ b[to].player # owner

\* a piece of the player to move has a capture among its destinations and an
\* own piece next to it
C14_Witness ==
    \E sq \in MoverSquares :
        /\ \E to \in get_piece_moves(board, current_player, sq[1], sq[2]) :
               board[to] # None
        /\ \E d \in KingDirections :
               /\ <<sq[1] + d[1], sq[2] + d[2]>> \in Squares
               /\ board[<<sq[1] + d[1], sq[2] + d[2]>>].player = current_player

\* C15: the move set of an unpromoted pawn of the player to move is the
\* square one step straight ahead of its owner if that square is on the
\* board and empty or enemy-held, and is empty otherwise.
C15_PawnMoves ==
    \A sq \in MoverSquares :
        LET owner == board[sq].player
            b == AsKind(board, sq, "FU", FALSE)
            moves == get_piece_moves(b, current_player, sq[1], sq[2])
            ahead == <<sq[1] + ForwardOf(owner), sq[2]>>
        IN  /\ Cardinality(moves) <= 1
            /\ moves \subseteq {ahead}
            /\ ahead \in moves <=>
                   /\ ahead \in Squares
                   /\ b[ahead] = None \/ b[ahead].player = Opponent(owner)

\* the pawn pushed to (5,2) is Sente's, Sente is to move and the pawn's move
\* set is the one square ahead of it
C15_Witness ==
    /\ current_player = Sente
    /\ nmoves >= 2
    /\ board[<<5, 2>>].piece_type = "FU"
    /\ ~board[<<5, 2>>].promoted
    /\ get_piece_moves(board, current_player, 5, 2) = { <<4, 2>> }

\* C16: along every ray of a sliding piece (lance, bishop, rook, and the
\* slide of a promoted bishop or rook) the returned squares are the empty
\* squares up to the first occupied square plus that square iff it holds an
\* enemy; nothing beyond it and no friendly blocker is returned.
C16_SlidingRays ==
    \A sq \in MoverSquares : \A kind \in {"KYO", "KAKU", "HI"} : \A promoted \in BOOLEAN :
        (kind = "KYO" => ~promoted) =>
            LET owner == board[sq].player
                b == AsKind(board, sq, kind, promoted)
                moves == get_piece_moves(b, current_player, sq[1], sq[2])
                dirs == SlideDirections(kind, owner)
            IN  /\ \A d \in dirs :
                       moves \cap RayLine(sq, d) = RayRule(b, sq, d, owner)
                /\ ~promoted => moves \subseteq UNION { RayLine(sq, d) : d \in dirs }
                /\ promoted =>
                       get_piece_moves_for_type(b, kind, sq[1], sq[2], owner, FALSE)
                         = UNION { RayRule(b, sq, d, owner) : d \in dirs }

\* the Sente bishop on (7,1) looks down the opened diagonal: it reaches the
\* Gote pawn on (2,6) and not the bishop on (1,7) behind it
C16_Witness ==
    /\ current_player = Sente
    /\ board[<<7, 1>>].piece_type = "KAKU"
    /\ board[<<2, 6>>].player = Gote
    /\ board[<<1, 7>>].player = Gote
    /\ <<2, 6>> \in get_piece_moves(board, current_player, 7, 1)
    /\ <<1, 7>> \notin get_piece_moves(board, current_player, 7, 1)

\* --------------------------------------------------------- the PyGame window
WINDOW_WIDTH == 800
BOARD_SIZE == 540
CELL_SIZE == BOARD_SIZE \div 9
BOARD_OFFSET_X == (WINDOW_WIDTH - BOARD_SIZE) \div 2
BOARD_OFFSET_Y == 50

\* PyGameShogi.screen_to_board_pos; NoSquare is the Python value None
screen_to_board_pos(screen_x, screen_y) ==
    LET board_x == screen_x - BOARD_OFFSET_X
        board_y == screen_y - BOARD_OFFSET_Y
    IN  IF 0 <= board_x /\ board_x < BOARD_SIZE /\ 0 <= board_y /\ board_y < BOARD_SIZE
        THEN <<board_y \div CELL_SIZE, board_x \div CELL_SIZE>>
        ELSE NoSquare

\* squares clicked in the exploration: the pawn pushes (6,2)->(5,2) and
\* (2,2)->(3,2)->(4,2), the bishop (7,1), its capture on (2,6) and the king
\* square (0,4)
ClickSquares ==
    { <<6, 2>>, <<5, 2>>, <<2, 2>>, <<3, 2>>, <<4, 2>>, <<7, 1>>, <<2, 6>>, <<0, 4>> }

\* pixel positions of the clicks: one inside each of those cells, and one
\* beside the board
ClickPositions ==
    { <<BOARD_OFFSET_X + sq[2] * CELL_SIZE + 7, BOARD_OFFSET_Y + sq[1] * CELL_SIZE + 52>> :
        sq \in ClickSquares } \cup { <<10, 10>> }

Keys == { "y", "n", "ESCAPE", "SPACE" }

\* the state a handler leaves: the ShogiBoard fields from an executor's
\* outcome, and the three fields of the window
Leave(out, selected_pos, possible_moves, promotion_dialog) ==
    /\ board' = out.board
    /\ captured_pieces' = out.captured_pieces
    /\ current_player' = out.current_player
    /\ gui' = [gui EXCEPT !.selected_pos = selected_pos,
                          !.possible_moves = possible_moves,
                          !.promotion_dialog = promotion_dialog]

\* the ShogiBoard as it is
Untouched == Outcome(FALSE, board, captured_pieces, current_player)

\* the call of move_piece_with_promotion inside a handler, which then clears
\* the selection (and the dialog)
ExecuteInWindow(from, to, promote) ==
    LET out == move_piece_with_promotion(board, captured_pieces, current_player,
                                         from[1], from[2], to[1], to[2], promote)
    IN  /\ Leave(out, NoSquare, {}, NoDialog)
        /\ IF out.result
           THEN /\ last' = Moved("move_piece_with_promotion", current_player,
                                 from, to, promote, board[to])
                /\ nmoves' = nmoves + 1
           ELSE /\ last' = Call("move_piece_with_promotion", current_player, FALSE)
                /\ nmoves' = nmoves

\* a handler that executes no move
NoMove(op) ==
    /\ last' = Call(op, current_player, FALSE)
    /\ nmoves' = nmoves

\* the selection of the piece on (row, col) if it is the mover's, otherwise
\* the given fallback for selected_pos and possible_moves
SelectOr(row, col, selected_pos, possible_moves) ==
    LET piece == board[<<row, col>>]
    IN  IF piece # None /\ piece.player = current_player
        THEN Leave(Untouched, <<row, col>>,
                   get_piece_moves(board, current_player, row, col),
                   gui.promotion_dialog)
        ELSE Leave(Untouched, selected_pos, possible_moves, gui.promotion_dialog)

\* PyGameShogi.handle_click(pos)
handle_click(pos) ==
    LET board_pos == screen_to_board_pos(pos[1], pos[2])
    IN  IF board_pos = NoSquare
        THEN Leave(Untouched, gui.selected_pos, gui.possible_moves,
                   gui.promotion_dialog) /\ NoMove("handle_click")
        ELSE
        LET row == board_pos[1]
            col == board_pos[2]
        IN  IF gui.selected_pos = NoSquare
            THEN SelectOr(row, col, gui.selected_pos, gui.possible_moves)
                   /\ NoMove("handle_click")
            ELSE
            LET from_row == gui.selected_pos[1]
                from_col == gui.selected_pos[2]
            IN  IF <<row, col>> = gui.selected_pos
                THEN Leave(Untouched, NoSquare, {}, gui.promotion_dialog)
                       /\ NoMove("handle_click")
                ELSE IF is_valid_move(board, current_player, from_row, from_col, row, col)
                THEN LET piece == board[<<from_row, from_col>>]
                     IN  IF can_promote(piece, from_row, row)
                         THEN Leave(Untouched, gui.selected_pos, gui.possible_moves,
                                    [from |-> <<from_row, from_col>>,
                                     to |-> <<row, col>>,
                                     piece |-> piece])
                                /\ NoMove("handle_click")
                         ELSE ExecuteInWindow(<<from_row, from_col>>, <<row, col>>, FALSE)
                ELSE SelectOr(row, col, NoSquare, {}) /\ NoMove("handle_click")

\* PyGameShogi.handle_promotion_input(promote)
handle_promotion_input(promote) ==
    IF gui.promotion_dialog # NoDialog
    THEN ExecuteInWindow(gui.promotion_dialog.from, gui.promotion_dialog.to, promote)
    ELSE Leave(Untouched, gui.selected_pos, gui.possible_moves, gui.promotion_dialog)
           /\ NoMove("handle_promotion_input")

\* the top of an iteration of the loop of run: "while running", then
\* "game_status = self.game.get_game_status()"; the drawing at the end of
\* the previous iteration changes nothing
FrameStatus ==
    /\ gui.at \in {"top", "events"}
    /\ gui.running
    /\ LET out == get_game_status(board, current_player)
       IN  /\ board' = out.board
           /\ gui' = [gui EXCEPT !.game_over = out.status.game_over,
                                 !.at = "events"]
           /\ last' = Call("get_game_status", 0, out.status.game_over)
    /\ UNCHANGED <<captured_pieces, current_player, nmoves>>

\* the loop ends: running is False when the condition is tested again
ExitRun ==
    /\ gui.at = "events"
    /\ ~gui.running
    /\ gui' = [gui EXCEPT !.at = "exited"]
    /\ last' = Call("exit", 0, FALSE)
    /\ UNCHANGED <<board, captured_pieces, current_player, nmoves>>

\* event pygame.QUIT
QuitEvent ==
    /\ gui.at = "events"
    /\ gui' = [gui EXCEPT !.running = FALSE]
    /\ last' = Call("QUIT", 0, FALSE)
    /\ UNCHANGED <<board, captured_pieces, current_player, nmoves>>

\* the mouse event without the test "not self.promotion_dialog"
MouseButtonDownDuringDialog(button, pos) ==
    /\ gui.at = "events"
    /\ nmoves < MaxMoves
    /\ IF button = 1 /\ ~gui.game_over
       THEN handle_click(pos)
       ELSE /\ NoMove("MOUSEBUTTONDOWN")
            /\ UNCHANGED <<board, captured_pieces, current_player, gui>>

\* event pygame.MOUSEBUTTONDOWN with the given button at the given position
MouseButtonDown(button, pos) ==
    /\ gui.at = "events"
    /\ nmoves < MaxMoves
    /\ IF button = 1 /\ gui.promotion_dialog = NoDialog /\ ~gui.game_over
       THEN handle_click(pos)
       ELSE /\ NoMove("MOUSEBUTTONDOWN")
            /\ UNCHANGED <<board, captured_pieces, current_player, gui>>

\* event pygame.KEYDOWN: the three tests of lines 541-556 in their order,
\* each on the state the previous one left
KeyDown(key) ==
    /\ gui.at = "events"
    /\ nmoves < MaxMoves
    /\ IF gui.promotion_dialog # NoDialog /\ key \in {"y", "n"}
       THEN handle_promotion_input(key = "y")
       ELSE IF key = "ESCAPE"
       THEN /\ gui' = [gui EXCEPT !.running = FALSE]
            /\ NoMove("KEYDOWN")
            /\ UNCHANGED <<board, captured_pieces, current_player>>
       ELSE IF gui.game_over /\ key = "SPACE"
       THEN /\ board' = setup_initial_position
            /\ captured_pieces' = [p \in Players |-> << >>]
            /\ current_player' = 1
            /\ gui' = [gui EXCEPT !.selected_pos = NoSquare,
                                  !.possible_moves = {},
                                  !.promotion_dialog = NoDialog]
            /\ last' = Call("restart", 0, TRUE)
            /\ nmoves' = nmoves
       ELSE /\ NoMove("KEYDOWN")
            /\ UNCHANGED <<board, captured_pieces, current_player, gui>>

NextWindow ==
    \/ FrameStatus
    \/ \E button \in {1, 3}, pos \in ClickPositions : MouseButtonDown(button, pos)
    \/ \E key \in Keys : KeyDown(key)
    \/ QuitEvent
    \/ ExitRun

SpecWindow == Init /\ [][NextWindow]_vars

\* ------------------------------------------------------ a game to a mate
\* cap on the accepted moves of the game below
MateMoves == 11

\* The moves of a game that ends in a mate of Gote with none of its pieces
\* able to answer: pawn (6,2)->(5,2), king (0,4)->(1,5), bishop takes (2,6)
\* and promotes, gold (0,3)->(0,4), the pawn of column 5 walks to (3,5)
\* while the Gote pawn of column 0 walks to (5,0), horse takes (2,5).
MateLine ==
    { <<<<6, 2>>, <<5, 2>>>>, <<<<0, 4>>, <<1, 5>>>>, <<<<7, 1>>, <<2, 6>>>>,
      <<<<0, 3>>, <<0, 4>>>>, <<<<6, 5>>, <<5, 5>>>>, <<<<2, 0>>, <<3, 0>>>>,
      <<<<5, 5>>, <<4, 5>>>>, <<<<3, 0>>, <<4, 0>>>>, <<<<4, 5>>, <<3, 5>>>>,
      <<<<4, 0>>, <<5, 0>>>>, <<<<2, 6>>, <<2, 5>>>> }

\* a call of ShogiBoard.move_piece in that game
MateMove(from, to, answer) ==
    /\ nmoves < MateMoves
    /\ Execute("move_piece",
               move_piece(board, captured_pieces, current_player,
                          from[1], from[2], to[1], to[2], answer),
               from, to,
               /\ answer
               /\ can_promote_row(board[from], to[1]))

NextMate ==
    \/ \E m \in MateLine, answer \in BOOLEAN : MateMove(m[1], m[2], answer)
    \/ \E player \in Players : IsCheckmate(player)
    \/ GetGameStatus

SpecMate == Init /\ [][NextMate]_vars

\* C13: after an accepted move that leaves the opponent's king attacked with
\* no move of the opponent ending the attack, is_checkmate(opponent) is true
\* and get_game_status reports game_over with the mover as winner.
C13_MateSurfaced ==
    (/\ MoveSucceeded
     /\ current_player = Opponent(last.player)
     /\ Attacked(board, current_player)
     /\ ~EscapeExists(board, current_player)) =>
        LET st == get_game_status(board, current_player).status
        IN  /\ is_checkmate(board, current_player, current_player).result
            /\ st.game_over
            /\ st.winner = last.player

\* ------------------------------------------------ move notation, reference
NotationDigits == { "1", "2", "3", "4", "5", "6", "7", "8", "9" }

\* digit digit - digit digit with every digit in 1..9
WellFormed(str) ==
    /\ Len(str) = 5
    /\ str[3] = "-"
    /\ \A i \in {1, 2, 4, 5} : str[i] \in NotationDigits

SeparatorCount(str) == Cardinality({ i \in 1 .. Len(str) : str[i] = "-" })

\* a separator count other than one, a character that is neither a digit
\* nor the separator, or the digit 0
Malformed(str) ==
    \/ SeparatorCount(str) # 1
    \/ \E i \in 1 .. Len(str) : str[i] \notin NotationDigits \cup {"-"}

DigitChar(n) == CHOOSE ch \in NotationDigits : DigitValue[ch] = n

\* the notation of a pair of board squares
Notation(from, to) ==
    << DigitChar(9 - from[2]), DigitChar(from[1] + 1), "-",
       DigitChar(9 - to[2]), DigitChar(to[1] + 1) >>

C18_MalformedRejected ==
    [][(last'.op \in {"parse_move", "play"} /\ Malformed(last'.input)) =>
         /\ ~last'.result
         /\ last'.from = NoSquare
         /\ UNCHANGED <<board, captured_pieces, current_player>>]_vars

\* ------------------------------------- step and promoted pieces, reference
\* the squares at the given (dr, dc) offsets from sq that are on the board
\* and not held by owner
Reachable(b, sq, owner, offsets) ==
    { to \in { <<sq[1] + d[1], sq[2] + d[2]>> : d \in offsets } :
        /\ to \in Squares
        /\ b[to].player # owner }

\* forward, the two forward diagonals, the two sideways, straight backward
GoldOffsets(owner) ==
    LET f == ForwardOf(owner)
    IN  { <<f, 0>>, <<f, -1>>, <<f, 1>>, <<0, -1>>, <<0, 1>>, <<-f, 0>> }

\* C27: a gold and a promoted silver, knight, lance or pawn of the same owner
\* on the same square of the same board have the same move set: the on-board,
\* not-own-occupied squares among forward, the two forward diagonals, the
\* two sideways and straight backward; no backward diagonal is included.
C27_GoldEquivalent ==
    \A sq \in MoverSquares :
        LET owner == board[sq].player
            f == ForwardOf(owner)
            gold == get_piece_moves(AsKind(board, sq, "KIN", FALSE),
                                    current_player, sq[1], sq[2])
        IN  /\ gold = Reachable(board, sq, owner, GoldOffsets(owner))
            /\ <<sq[1] - f, sq[2] - 1>> \notin gold
            /\ <<sq[1] - f, sq[2] + 1>> \notin gold
            /\ \A kind \in {"GIN", "KEI", "KYO", "FU"} :
                   get_piece_moves(AsKind(board, sq, kind, TRUE),
                                   current_player, sq[1], sq[2]) = gold

\* Gote is to move after a move of Sente and its gold on (0,3) reaches the
\* three squares of row 1 in front of it
C27_Witness ==
    /\ nmoves >= 1
    /\ current_player = Gote
    /\ board[<<0, 3>>].piece_type = "KIN"
    /\ get_piece_moves(board, current_player, 0, 3) = { <<1, 2>>, <<1, 3>>, <<1, 4>> }

\* C28: the move set of a promoted bishop is the diagonal slides of the
\* unpromoted bishop on the same square united with the orthogonally adjacent
\* squares, and that of a promoted rook the orthogonal slides of the rook
\* united with the diagonally adjacent squares, each step square on the board
\* and not own-occupied.
C28_PromotedSliders ==
    \A sq \in MoverSquares :
        LET owner == board[sq].player
            moves(kind, promoted) ==
                get_piece_moves(AsKind(board, sq, kind, promoted),
                                current_player, sq[1], sq[2])
        IN  /\ moves("KAKU", TRUE) =
                   moves("KAKU", FALSE)
                     \cup Reachable(board, sq, owner,
                                    { <<-1, 0>>, <<1, 0>>, <<0, -1>>, <<0, 1>> })
            /\ moves("HI", TRUE) =
                   moves("HI", FALSE)
                     \cup Reachable(board, sq, owner,
                                    { <<-1, -1>>, <<-1, 1>>, <<1, -1>>, <<1, 1>> })

\* the player to move owns a promoted bishop that has both an adjacent
\* orthogonal square and a diagonal square two steps away among its moves
C28_Witness ==
    \E sq \in MoverSquares :
        /\ board[sq].piece_type = "KAKU"
        /\ board[sq].promoted
        /\ \E to \in get_piece_moves(board, current_player, sq[1], sq[2]) :
               to[1] = sq[1] /\ to[2] \in {sq[2] - 1, sq[2] + 1}
        /\ \E to \in get_piece_moves(board, current_player, sq[1], sq[2]) :
               to[1] \in {sq[1] - 2, sq[1] + 2} /\ to[2] \in {sq[2] - 2, sq[2] + 2}

\* C29: the move set of an unpromoted knight is the on-board, not-own-occupied
\* squares among the two squares two rows forward and one column aside; it
\* does not depend on what stands on the squares in between.
C29_KnightMoves ==
    \A sq \in MoverSquares :
        LET owner == board[sq].player
            f == ForwardOf(owner)
            b == AsKind(board, sq, "KEI", FALSE)
            moves == get_piece_moves(b, current_player, sq[1], sq[2])
            between == { <<sq[1] + f, sq[2] + dc>> : dc \in {-1, 0, 1} } \cap Squares
        IN  /\ moves = Reachable(b, sq, owner, { <<2 * f, -1>>, <<2 * f, 1>> })
            /\ \A to \in moves : to[1] = sq[1] + 2 * f
            /\ \A mid \in between : \A put \in {None, b[sq]} :
                   get_piece_moves([b EXCEPT ![mid] = put],
                                   current_player, sq[1], sq[2]) = moves

\* a knight of the player to move jumps over an occupied square
C29_Witness ==
    \E sq \in MoverSquares :
        /\ board[sq].piece_type = "KEI"
        /\ ~board[sq].promoted
        /\ nmoves >= 1
        /\ board[<<sq[1] + ForwardOf(current_player), sq[2]>>] # None
        /\ get_piece_moves(board, current_player, sq[1], sq[2]) # {}

\* C21: promotion is never forced. For every move of the player to move that
\* may promote (a pawn or a lance reaching the last rank included), both
\* executors run with the promotion declined succeed, leave the moved piece
\* unpromoted and pass the turn.
C21_PromotionOptional ==
    \A sq \in MoverSquares :
         \A kind \in {board[sq].piece_type, "FU", "KYO", "GIN"} :
           LET b == AsKind(board, sq, kind, FALSE)
           IN  \A to \in get_piece_moves(b, current_player, sq[1], sq[2]) :
                 can_promote(b[sq], sq[1], to[1]) =>
                   LET console == move_piece(b, captured_pieces, current_player,
                                             sq[1], sq[2], to[1], to[2], FALSE)
                       window == move_piece_with_promotion(
                                  b, captured_pieces, current_player,
                                  sq[1], sq[2], to[1], to[2], FALSE)
                   IN  \A out \in {console, window} :
                         /\ out.result
                         /\ SamePiece(out.board[to], b[sq])
                         /\ ~out.board[to].promoted
                         /\ out.current_player = Opponent(current_player)

\* an accepted move took an unpromoted bishop into the promotion zone with
\* the promotion declined: it stands there unpromoted and the turn passed
C21_Witness ==
    /\ MoveSucceeded
    /\ ~last.promote
    /\ board[last.to].piece_type = "KAKU"
    /\ ~board[last.to].promoted
    /\ PromotionZone(last.player, last.to[1])
    /\ current_player = Opponent(last.player)

\* every (from, to) with to in the movement rule of a piece of the player
RuleCandidates(b, player) ==
    UNION { { <<from, to>> : to \in MovesByRule(b, from[1], from[2]) } :
              from \in { sq \in Squares : b[sq].player = player } }

\* C22: the legality simulation restores the board. can_escape_check,
\* is_checkmate and get_game_status leave every cell as it was; so does the
\* simulate / test / restore loop of can_escape_check run over the moves of
\* the player's pieces, whether it returns at the first escaping move or
\* runs to its end; and a rejected move of either executor leaves the board,
\* both hands and current_player as they were.
C22_SimulationRestores ==
    /\ get_game_status(board, current_player).board = board
    /\ \A player \in Players :
           /\ can_escape_check(board, current_player, player).board = board
           /\ is_checkmate(board, current_player, player).board = board
           /\ EscapeLoop(board, current_player, player,
                         RuleCandidates(board, player)).board = board
    /\ \A m \in InputMoves :
           LET console == move_piece(board, captured_pieces, current_player,
                                     m[1][1], m[1][2], m[2][1], m[2][2], TRUE)
               window == move_piece_with_promotion(
                          board, captured_pieces, current_player,
                          m[1][1], m[1][2], m[2][1], m[2][2], TRUE)
           IN  \A out \in {console, window} :
                   ~out.result =>
                       /\ out.board = board
                       /\ out.captured_pieces = captured_pieces
                       /\ out.current_player = current_player

\* is_checkmate has answered True for a player whose king is attacked (the
\* call went through is_in_check and can_escape_check), and the loop run
\* over that player's moves ends at an escaping move
C22_Witness ==
    /\ last.op = "is_checkmate"
    /\ last.result
    /\ Attacked(board, last.player)
    /\ EscapeLoop(board, current_player, last.player,
                  RuleCandidates(board, last.player)).result

\* number of occupied cells
OnBoard(b) == Cardinality({ sq \in Squares : b[sq] # None })

HandIds(hands) ==
    UNION { { hands[p][i].id : i \in 1 .. Len(hands[p]) } : p \in Players }

\* C23: hands are write-only. In every step each hand either stays as it is
\* or, on an accepted capturing move of its owner, gets the captured piece
\* appended at its end with the earlier entries in place; no piece of a hand
\* stands on the board and the number of pieces on the board never grows.
C23_HandsWriteOnly ==
    [][/\ \A p \in Players :
            \/ captured_pieces'[p] = captured_pieces[p]
            \/ /\ last'.op \in MoveOps
               /\ last'.result
               /\ last'.player = p
               /\ board[last'.to] # None
               /\ Len(captured_pieces'[p]) = Len(captured_pieces[p]) + 1
               /\ SubSeq(captured_pieces'[p], 1, Len(captured_pieces[p]))
                      = captured_pieces[p]
               /\ SamePiece(captured_pieces'[p][Len(captured_pieces'[p])],
                            board[last'.to])
       /\ OnBoard(board') <= OnBoard(board)
       /\ \A sq \in Squares :
              board'[sq] # None => board'[sq].id \notin HandIds(captured_pieces')
      ]_vars

\* a second capture of the same player: the hand holds the earlier piece
\* first and the piece just taken last
C23_Witness ==
    /\ MoveSucceeded
    /\ last.captured # None
    /\ Len(captured_pieces[last.player]) = 2
    /\ captured_pieces[last.player][2].id = last.captured.id
    /\ captured_pieces[last.player][1].id # last.captured.id

\* C25: no reachable state has both players checkmated by is_checkmate, so
\* get_game_status never has to choose between the two.
C25_NeverBothCheckmated ==
    ~(/\ is_checkmate(board, current_player, Sente).result
      /\ is_checkmate(board, current_player, Gote).result)

\* after an accepted move is_checkmate holds for one player and not for the
\* other
C25_Witness ==
    /\ MoveSucceeded
    /\ \E p \in Players :
           /\ is_checkmate(board, current_player, p).result
           /\ ~is_checkmate(board, current_player, Opponent(p)).result

\* the 40 pieces of the initial position
InitialPieces ==
    { setup_initial_position[sq] :
        sq \in { s \in Squares : setup_initial_position[s] # None } }

\* the places (cells and hand slots) that hold the piece with the given id
Places(id) ==
    { <<"board", sq>> : sq \in { s \in Squares : board[s].id = id } }
      \cup UNION { { <<"hand", p, i>> :
                       i \in { j \in 1 .. Len(captured_pieces[p]) :
                                 captured_pieces[p][j].id = id } } :
                   p \in Players }

\* C26: every one of the 40 initial pieces is in exactly one place, a board
\* cell or a hand slot, with the kind it started with; the board and the two
\* hands hold 40 pieces together and nothing else.
C26_PiecesConserved ==
    /\ \A piece \in InitialPieces :
           /\ Cardinality(Places(piece.id)) = 1
           /\ \A q \in PiecesInPlay :
                  q.id = piece.id => q.piece_type = piece.piece_type
    /\ \A q \in PiecesInPlay : \E piece \in InitialPieces : q.id = piece.id
    /\ OnBoard(board) + Len(captured_pieces[Sente]) + Len(captured_pieces[Gote]) = 40

\* after two captures 38 pieces stand on the board and two lie in hands
C26_Witness ==
    /\ MoveSucceeded
    /\ last.captured # None
    /\ OnBoard(board) = 38
    /\ Len(captured_pieces[Sente]) + Len(captured_pieces[Gote]) = 2

\* C30: the two executors agree: from the same state, for the same (from,
\* to) and the same promotion decision, move_piece and
\* move_piece_with_promotion return the same result and leave the same
\* board, hands, promoted flags and current_player.
C30_ExecutorsAgree ==
    \A m \in InputMoves : \A decision \in BOOLEAN :
        move_piece(board, captured_pieces, current_player,
                   m[1][1], m[1][2], m[2][1], m[2][2], decision)
          = move_piece_with_promotion(board, captured_pieces, current_player,
                                      m[1][1], m[1][2], m[2][1], m[2][2], decision)

\* C24: play stops at game over. No move is executed, by the console loop
\* or by a handler of the window, on a board for which get_game_status
\* reports game_over, whatever number of events one iteration of the loop
\* processes.
C24_NoMoveAfterGameOver ==
    [][(nmoves' = nmoves + 1) =>
           ~get_game_status(board, current_player).status.game_over]_vars

\* C31: get_piece_moves returns the empty list for an empty square and for a
\* piece whose owner is not current_player, whatever the piece's kind,
\* promotion state and surroundings; a non-empty result is only produced for
\* a piece of the player to move.
C31_EmptyForNonMover ==
    /\ \A sq \in Squares :
           board[sq] = None =>
               get_piece_moves(board, current_player, sq[1], sq[2]) = {}
    /\ \A sq \in Squares : \A kind \in PieceKinds : \A promoted \in BOOLEAN :
           (board[sq] # None /\ board[sq].player # current_player) =>
               get_piece_moves(AsKind(board, sq, kind, promoted),
                               current_player, sq[1], sq[2]) = {}
    /\ \A sq \in Squares :
           get_piece_moves(board, current_player, sq[1], sq[2]) # {} =>
               /\ board[sq] # None
               /\ board[sq].player = current_player

\* after a move, a piece of the player who is not to move could capture by
\* its movement rule, and get_piece_moves returns nothing for it
C31_Witness ==
    /\ MoveSucceeded
    /\ \E sq \in Squares :
           /\ board[sq] # None
           /\ board[sq].player # current_player
           /\ \E to \in MovesByRule(board, sq[1], sq[2]) : board[to] # None
           /\ get_piece_moves(board, current_player, sq[1], sq[2]) = {}

\* C33: a capture does not change the owner field of the piece. In every
\* reachable state every piece in the hand of player p has player equal to
\* the opponent of p, and the piece a capture has just put in the hand is the
\* piece that stood on the destination with only its promoted flag cleared
\* (kind, owner and identity kept).
C33_CaptureKeepsOwner ==
    /\ \A p \in Players : \A i \in 1 .. Len(captured_pieces[p]) :
           captured_pieces[p][i].player = Opponent(p)
    /\ (MoveSucceeded /\ last.captured # None) =>
           LET hand == captured_pieces[last.player]
           IN  /\ Len(hand) >= 1
               /\ hand[Len(hand)] = [last.captured EXCEPT !.promoted = FALSE]
               /\ board[last.to].player = last.player

\* a promoted piece has just been captured: it lies in the hand of the
\* capturing player unpromoted and with the owner it had on the board
C33_Witness ==
    /\ MoveSucceeded
    /\ last.captured # None
    /\ last.captured.promoted
    /\ Len(captured_pieces[last.player]) >= 1
    /\ captured_pieces[last.player][Len(captured_pieces[last.player])].player
           = Opponent(last.player)

\* the window with nothing selected and no dialog
Cleared(window) ==
    /\ window.selected_pos = NoSquare
    /\ window.possible_moves = {}
    /\ window.promotion_dialog = NoDialog

\* a mouse event while a dialog is pending changes neither the board, the
\* hands, the turn nor the selection
ClickDuringDialog(button, pos) ==
    (MouseButtonDown(button, pos) /\ gui.promotion_dialog # NoDialog) =>
        /\ UNCHANGED <<board, captured_pieces, current_player, nmoves>>
        /\ gui'.selected_pos = gui.selected_pos
        /\ gui'.possible_moves = gui.possible_moves
        /\ gui'.promotion_dialog = gui.promotion_dialog

\* a mouse event that executes a move executes one for which can_promote
\* does not hold, without promotion
ClickExecutes(button, pos) ==
    (MouseButtonDown(button, pos) /\ nmoves' = nmoves + 1) =>
        /\ ~can_promote(board[last'.from], last'.from[1], last'.to[1])
        /\ ~last'.promote
        /\ board'[last'.to].promoted = board[last'.from].promoted

\* a left click that asks for a valid move for which can_promote holds opens
\* the dialog for that move and executes nothing
ClickOpensDialog(pos) ==
    LET to == screen_to_board_pos(pos[1], pos[2])
        from == gui.selected_pos
    IN  (/\ MouseButtonDown(1, pos)
         /\ gui.promotion_dialog = NoDialog
         /\ ~gui.game_over
         /\ from # NoSquare
         /\ to # NoSquare
         /\ to # from
         /\ is_valid_move(board, current_player, from[1], from[2], to[1], to[2])
         /\ can_promote(board[from], from[1], to[1])) =>
            /\ UNCHANGED <<board, captured_pieces, current_player, nmoves>>
            /\ gui'.promotion_dialog = [from |-> from, to |-> to, piece |-> board[from]]

\* a Y or N key with a dialog pending executes the pending move, once, with
\* the decision of the key, and clears dialog and selection
KeyDecides(key) ==
    (KeyDown(key) /\ gui.promotion_dialog # NoDialog) =>
        LET dialog == gui.promotion_dialog
            out == move_piece_with_promotion(board, captured_pieces, current_player,
                                             dialog.from[1], dialog.from[2],
                                             dialog.to[1], dialog.to[2], key = "y")
        IN  /\ out.result
            /\ nmoves' = nmoves + 1
            /\ board' = out.board
            /\ captured_pieces' = out.captured_pieces
            /\ current_player' = Opponent(current_player)
            /\ board'[dialog.from] = None
            /\ SamePiece(board'[dialog.to], dialog.piece)
            /\ board'[dialog.to].promoted = (key = "y")
            /\ \A sq \in Squares \ {dialog.from, dialog.to} : board'[sq] = board[sq]
            /\ Cleared(gui')

\* C32: the promotion-dialog protocol of the window. A move for which
\* can_promote holds is never executed by a click alone, the click opens a
\* pending dialog; while the dialog is pending mouse clicks change neither
\* the board, the turn nor the selection; a Y or N key then executes exactly
\* the pending move once with the chosen decision and clears
\* promotion_dialog, selected_pos and possible_moves. Whenever no dialog is
\* pending and a piece is selected, selected_pos holds a piece of
\* current_player.
C32_DialogProtocol ==
    /\ []((gui.promotion_dialog = NoDialog /\ gui.selected_pos # NoSquare) =>
             /\ board[gui.selected_pos] # None
             /\ board[gui.selected_pos].player = current_player)
    /\ [][/\ \A button \in {1, 3} : \A pos \in ClickPositions :
                 ClickDuringDialog(button, pos) /\ ClickExecutes(button, pos)
          /\ \A pos \in ClickPositions : ClickOpensDialog(pos)
          /\ \A key \in {"y", "n"} : KeyDecides(key)
         ]_vars

\* the Y key has just executed a pending move: the piece stands promoted on
\* the destination and dialog and selection are cleared
C32_Witness ==
    /\ MoveSucceeded
    /\ last.op = "move_piece_with_promotion"
    /\ last.promote
    /\ board[last.to].promoted
    /\ Cleared(gui)

====
